---- MODULE Spec2Model ----
(***************************************************************************)
(* Plate detection / blur backend (backend/main.py).                       *)
(*                                                                         *)
(* Four parts of the program are modelled, each with its own               *)
(* specification over the shared variables:                                *)
(*   SpecNms   _nms            greedy non-maximum suppression              *)
(*   SpecPost  _postprocess    decoding of the model output (with          *)
(*                             _preprocess giving scale and padding)       *)
(*   SpecBlur  _blur_regions   copy-then-blur of the detection boxes       *)
(*   SpecZip   blur_zip        the archive batch handler                   *)
(*                                                                         *)
(* Real numbers of the program (float coordinates, scores, IoU) are exact  *)
(* rationals here: scores are integers in hundredths, a box edge in        *)
(* image space is a numerator over a denominator common to the call, an    *)
(* IoU is a pair inter/union.  Float rounding is not modelled.             *)
(***************************************************************************)
EXTENDS Integers, Sequences, FiniteSets, TLC

VARIABLES
  \* _nms: its arguments, and its return value once called
  nms_in, nms_out,
  \* _postprocess: its arguments, and its outcome once called
  pp_in, pp_out,
  \* _blur_regions: the image buffers, the call's locals, its position
  bufs, blur_in, blur_loc, blur_pc,
  \* blur_zip: the request, the handler's locals, the output archive
  session, content_len, is_zip, archive,
  zip_pc, idx, processed_count, skipped_count, zout, report, response,
  trace, read_log, visited

vars == <<nms_in, nms_out, pp_in, pp_out, bufs, blur_in, blur_loc, blur_pc,
          session, content_len, is_zip, archive, zip_pc, idx,
          processed_count, skipped_count, zout, report, response, trace,
          read_log, visited>>

nmsVars  == <<nms_in, nms_out>>
ppVars   == <<pp_in, pp_out>>
blurVars == <<bufs, blur_in, blur_loc, blur_pc>>
zipVars  == <<session, content_len, is_zip, archive, zip_pc, idx,
              processed_count, skipped_count, zout, report, response, trace,
              read_log, visited>>

----------------------------------------------------------------------------
(* Generic helpers *)

Min(a, b) == IF a <= b THEN a ELSE b
Max(a, b) == IF a >= b THEN a ELSE b

Range(s) == {s[i] : i \in 1..Len(s)}

\* all sequences over S of length 0..n
SeqsUpTo(S, n) == UNION {[1..k -> S] : k \in 0..n}

----------------------------------------------------------------------------
(* Program constants (main.py:21-23, defaults of the environment variables). *)
(* Scores, thresholds and tensor values are integers in hundredths.          *)

CONF_THRES == 25
IOU_THRES  == 50
INPUT_SIZE == 640

----------------------------------------------------------------------------
(* _nms  (main.py:179-214)                                                 *)
(* A box is <<x1, y1, x2, y2>>; boxes and scores are sequences indexed     *)
(* from 1 (index i here is Python index i-1).                              *)

Area(b) == (b[3] - b[1]) * (b[4] - b[2])

\* lines 201-208: intersection of boxes a and b, clamped at zero
Inter(a, b) ==
  LET xx1 == Max(a[1], b[1])
      yy1 == Max(a[2], b[2])
      xx2 == Min(a[3], b[3])
      yy2 == Min(a[4], b[4])
      w   == Max(0, xx2 - xx1)
      h   == Max(0, yy2 - yy1)
  IN  w * h

\* line 210: inter / (areas[i] + areas[j] - inter) as numpy computes it:
\* no guard on the divisor, so 0/0 is NaN and x/0 is +-inf (a RuntimeWarning,
\* not an exception).
IoU(a, b) ==
  LET inter == Inter(a, b)
      union == Area(a) + Area(b) - inter
  IN  IF union = 0
        THEN IF inter = 0 THEN [kind |-> "nan", num |-> 0, den |-> 0]
                          ELSE [kind |-> "inf", num |-> inter, den |-> 0]
        ELSE [kind |-> "num", num |-> inter, den |-> union]

\* A variant with the comparison strict
IoULeStrict(v, thr) ==
  /\ v.kind = "num"
  /\ IF v.den > 0 THEN v.num * 100 < thr * v.den
                  ELSE v.num * 100 > thr * v.den

\* line 211: iou <= iou_threshold (thr in hundredths); any comparison with
\* NaN is False, +inf <= thr is False
IoULe(v, thr) ==
  /\ v.kind = "num"
  /\ IF v.den > 0 THEN v.num * 100 <= thr * v.den
                  ELSE v.num * 100 >= thr * v.den

\* line 191: scores.argsort()[::-1] is some permutation of the indices with
\* non-increasing scores; the order among equal scores is the sort's choice.
RECURSIVE OrdersOf(_, _)
OrdersOf(scores, S) ==
  IF S = {} THEN {<< >>}
  ELSE LET tops == {i \in S : \A j \in S : scores[i] >= scores[j]}
       IN  UNION {{<<i>> \o o : o \in OrdersOf(scores, S \ {i})} : i \in tops}

DescOrders(scores) == OrdersOf(scores, 1..Len(scores))

\* lines 194-212: the while loop
RECURSIVE NmsLoop(_, _, _, _)
NmsLoop(boxes, order, keep, thr) ==
  IF Len(order) = 0 THEN keep
  ELSE LET i    == order[1]
           kept == Append(keep, i)
       IN  IF Len(order) = 1 THEN kept
           ELSE LET Stays(j) == IoULe(IoU(boxes[i], boxes[j]), thr)
                IN  NmsLoop(boxes, SelectSeq(Tail(order), Stays), kept, thr)

\* _nms with the order argsort produced
Nms(boxes, order, thr) ==
  IF Len(boxes) = 0 THEN << >> ELSE NmsLoop(boxes, order, << >>, thr)

----------------------------------------------------------------------------
(* Inputs of _nms *)

MaxBoxes == 3

\* boxes with positive area (overlapping, nested, disjoint) and with zero area
BoxPool == { <<0, 0, 2, 2>>, <<1, 0, 3, 2>>, <<0, 0, 2, 1>>, <<4, 4, 6, 6>>,
             <<1, 1, 1, 1>>, <<5, 5, 5, 5>> }
ScorePool == {60, 90}
ThrPool   == {0, IOU_THRES}

NmsIdle ==
  /\ nms_in  = [boxes |-> << >>, scores |-> << >>, thr |-> 0]
  /\ nms_out = [done |-> FALSE, keep |-> << >>]

\* the call keep = _nms(boxes, scores, iou_threshold)
CallNms ==
  /\ ~nms_out.done
  /\ \E order \in DescOrders(nms_in.scores) :
       nms_out' = [done |-> TRUE,
                   keep |-> Nms(nms_in.boxes, order, nms_in.thr)]
  /\ UNCHANGED <<nms_in, ppVars, blurVars, zipVars>>

----------------------------------------------------------------------------
(* Tensors (numpy arrays): a shape and the elements in row-major order.    *)
(* An element read as a coordinate is in pixels, read as a score it is in  *)
(* hundredths.                                                             *)

RECURSIVE Prod(_)
Prod(shape) == IF Len(shape) = 0 THEN 1 ELSE shape[1] * Prod(Tail(shape))

\* t[0], for a tensor of rank >= 1 with shape[0] >= 1
Index0(t) ==
  [shape |-> Tail(t.shape), data |-> SubSeq(t.data, 1, Prod(Tail(t.shape)))]

\* t.T for a rank-2 tensor
Transpose(t) ==
  LET r == t.shape[1]
      c == t.shape[2]
  IN  [shape |-> <<c, r>>,
       data  |-> [k \in 1..(r * c) |->
                    LET i == (k - 1) \div r      \* row of the result
                        j == (k - 1) % r          \* column of the result
                    IN  t.data[j * c + i + 1]]]

\* row i (from 1) of a rank-2 tensor
Row(t, i) == SubSeq(t.data, (i - 1) * t.shape[2] + 1, i * t.shape[2])

RECURSIVE SeqMax(_)
SeqMax(s) == IF Len(s) = 1 THEN s[1] ELSE Max(s[1], SeqMax(Tail(s)))

RECURSIVE GCD(_, _)
GCD(a, b) == IF b = 0 THEN a ELSE GCD(b, a % b)

----------------------------------------------------------------------------
(* _preprocess  (main.py:161-176)                                          *)
(* scale = min(S/w, S/h) = S/max(w, h), kept as the reduced fraction       *)
(* sN/sD; new_w = int(w * scale); cv2.resize raises on an empty size.      *)

Preprocess(w, h) ==
  LET m     == Max(w, h)
      g     == GCD(INPUT_SIZE, m)
      new_w == (w * INPUT_SIZE) \div m
      new_h == (h * INPUT_SIZE) \div m
  IN  [ok    |-> new_w > 0 /\ new_h > 0,
       sN    |-> INPUT_SIZE \div g,
       sD    |-> m \div g,
       new_w |-> new_w,
       new_h |-> new_h,
       pad_x |-> (INPUT_SIZE - new_w) \div 2,
       pad_y |-> (INPUT_SIZE - new_h) \div 2]

----------------------------------------------------------------------------
(* _postprocess  (main.py:217-278)                                         *)

\* lines 220-226: predictions after the orientation normalisation, or the
\* IndexError that output[0], predictions.shape[0] or predictions.shape[1]
\* raises
Normalize(output) ==
  IF Len(output.shape) = 0 \/ output.shape[1] = 0
    THEN [kind |-> "raise"]
  ELSE LET p1 == Index0(output)
       IN  IF Len(p1.shape) = 0 THEN [kind |-> "raise"]
           ELSE LET p2 == IF p1.shape[1] = 1 THEN Index0(p1) ELSE p1
                IN  IF Len(p2.shape) < 2 THEN [kind |-> "raise"]
                    ELSE [kind |-> "ok",
                          pred |-> IF p2.shape[1] < p2.shape[2]
                                     THEN Transpose(p2) ELSE p2]

\* line 236: the candidate is not skipped
PassesConf(conf) == ~(conf < CONF_THRES)

\* lines 239-252 for one axis: centre c and extent e in model pixels to the
\* two clamped edges in image space, as numerators over 2 * sN
Edges(c, e, pad, orig, sN, sD) ==
  LET den == 2 * sN
      lo  == (2 * c - e - 2 * pad) * sD
      hi  == (2 * c + e - 2 * pad) * sD
  IN  <<Max(0, Min(orig * den, lo)), Max(0, Min(orig * den, hi))>>

\* lines 231-256: boxes and scores of the rows that pass
RECURSIVE Candidates(_, _, _, _, _, _)
Candidates(pred, i, orig_w, orig_h, pp, acc) ==
  IF i > pred.shape[1] THEN acc
  ELSE
    LET row == Row(pred, i)
    IN  IF Len(row) < 5
          THEN Candidates(pred, i + 1, orig_w, orig_h, pp, acc)
        ELSE
          LET conf == IF Len(row) = 5 THEN row[5]
                      ELSE SeqMax(SubSeq(row, 5, Len(row)))
              ex   == Edges(row[1], row[3], pp.pad_x, orig_w, pp.sN, pp.sD)
              ey   == Edges(row[2], row[4], pp.pad_y, orig_h, pp.sN, pp.sD)
          IN  IF ~PassesConf(conf)
                THEN Candidates(pred, i + 1, orig_w, orig_h, pp, acc)
              ELSE IF ex[2] > ex[1] /\ ey[2] > ey[1]
                THEN Candidates(pred, i + 1, orig_w, orig_h, pp,
                       [boxes  |-> Append(acc.boxes,
                                          <<ex[1], ey[1], ex[2], ey[2]>>),
                        scores |-> Append(acc.scores, conf)])
              ELSE Candidates(pred, i + 1, orig_w, orig_h, pp, acc)

\* lines 265-276: int() of each edge (the edges are >= 0, so int() is floor)
Emit(boxes, scores, keep, sN) ==
  [k \in 1..Len(keep) |->
     [bbox |-> [c \in 1..4 |-> boxes[keep[k]][c] \div (2 * sN)],
      conf |-> scores[keep[k]]]]

\* everything before the call of _nms
Decode(output, orig_w, orig_h, pp) ==
  LET n == Normalize(output)
  IN  IF n.kind = "raise"
        THEN [kind |-> "raise", nrows |-> 0, ncols |-> 0,
              boxes |-> << >>, scores |-> << >>]
        ELSE LET c == Candidates(n.pred, 1, orig_w, orig_h, pp,
                                 [boxes |-> << >>, scores |-> << >>])
             IN  [kind |-> "ok", nrows |-> n.pred.shape[1],
                  ncols |-> n.pred.shape[2],
                  boxes |-> c.boxes, scores |-> c.scores]

\* the outcomes of _postprocess: one per order argsort may produce
Postprocess(output, orig_w, orig_h, pp) ==
  LET d == Decode(output, orig_w, orig_h, pp)
  IN  IF d.kind = "raise"
        THEN {[kind |-> "raise", nrows |-> 0, ncols |-> 0, dets |-> << >>]}
        ELSE {[kind |-> "ok", nrows |-> d.nrows, ncols |-> d.ncols,
               dets |-> Emit(d.boxes, d.scores,
                             Nms(d.boxes, order, IOU_THRES), pp.sN)] :
                order \in DescOrders(d.scores)}

----------------------------------------------------------------------------
(* Inputs of _postprocess: model outputs of rank 3, as the exported model  *)
(* gives, and the images they were computed for.                           *)

\* candidate rows <<cx, cy, w, h, score>>
CandPool ==
  { <<320, 320, 200, 100, 90>>,    \* a plate in the middle
    <<330, 320, 200, 100, 80>>,    \* nearly the same box, lower score
    <<11, 100, 1, 1, 90>>,         \* one model pixel wide and high
    <<100, 200, 50, 50, 10>>,      \* below the confidence threshold
    <<500, 400, 60, 40, 25>>,      \* exactly at the confidence threshold
    <<320, 10, 40, 10, 90>>,       \* inside the letterbox padding
    <<630, 320, 100, 100, 70>> }   \* across the right edge

Filler == <<100, 200, 50, 50, 10>>

RECURSIVE Flatten(_)
Flatten(rows) == IF Len(rows) = 0 THEN << >> ELSE rows[1] \o Flatten(Tail(rows))

\* (1, candidates, attributes)
CandsFirst(rows) ==
  [shape |-> <<1, Len(rows), Len(rows[1])>>, data |-> Flatten(rows)]

\* (1, attributes, candidates)
AttrsFirst(rows) ==
  LET t == Transpose([shape |-> <<Len(rows), Len(rows[1])>>,
                      data  |-> Flatten(rows)])
  IN  [shape |-> <<1>> \o t.shape, data |-> t.data]

\* a tensor of the given shape filled with a repeating row
Filled(shape) ==
  [shape |-> shape, data |-> [k \in 1..Prod(shape) |-> Filler[((k - 1) % 5) + 1]]]

SixRows(a, b) == <<a, b, Filler, Filler, Filler, Filler>>

\* one more class score per row
WithClass(rows, s) == [i \in 1..Len(rows) |-> Append(rows[i], s)]

WellFormed ==
  UNION {{CandsFirst(SixRows(a, b)), AttrsFirst(SixRows(a, b)),
          CandsFirst(WithClass(SixRows(a, b), 40))} : a, b \in CandPool}

Degenerate ==
  { CandsFirst(<<r>>) : r \in CandPool } \cup
  { Filled(sh) : sh \in { <<1, 2, 5>>, <<1, 5, 2>>, <<1, 5, 0>>, <<1, 0, 5>>,
                          <<1, 6, 3>>, <<1, 3, 6>>, <<1, 1, 0>>,
                          <<2, 6, 5>> } }

TensorPool == WellFormed \cup Degenerate

\* <<width, height>> of the original image
ImagePool == { <<640, 480>>, <<320, 240>>, <<1280, 720>> }

PostIdle ==
  /\ pp_in  = [output |-> Filled(<<1, 0, 5>>), orig_w |-> 1, orig_h |-> 1]
  /\ pp_out = [done |-> FALSE, kind |-> "none", nrows |-> 0, ncols |-> 0,
               dets |-> << >>]

\* detections = _postprocess(output[0], w, h, scale, pad_x, pad_y), with
\* scale, pad_x, pad_y from _preprocess(img) as at every call site
CallPostprocess ==
  /\ ~pp_out.done
  /\ \E r \in Postprocess(pp_in.output, pp_in.orig_w, pp_in.orig_h,
                           Preprocess(pp_in.orig_w, pp_in.orig_h)) :
       pp_out' = [done |-> TRUE, kind |-> r.kind, nrows |-> r.nrows,
                  ncols |-> r.ncols, dets |-> r.dets]
  /\ UNCHANGED <<pp_in, nmsVars, blurVars, zipVars>>

----------------------------------------------------------------------------
(* _blur_regions  (main.py:306-320)                                        *)
(* An image is a sequence of rows of pixels, a pixel a sequence of channel *)
(* values; row y and column x of numpy (from 0) are px[y + 1][x + 1].      *)
(* Image buffers live in bufs, by reference, as numpy arrays do.           *)

Height(img)   == Len(img)
Width(img)    == Len(img[1])
Channels(img) == Len(img[1][1])

\* a slice bound v on an axis of length n, as numpy normalises it: a negative
\* bound counts from the end, and both are clipped to 0..n
SliceBound(v, n) == IF v < 0 THEN Max(v + n, 0) ELSE Min(v, n)

\* the positions (from 0) that a[lo:hi] selects on an axis of length n
SliceIdx(lo, hi, n) ==
  {p \in 0..(n - 1) : SliceBound(lo, n) <= p /\ p < SliceBound(hi, n)}

\* cv2.GaussianBlur(roi, (ksize, ksize), 0) for the pixel (y, x) of the region
\* ys x xs of img: a mean over the region's pixels within the kernel's reach
\* (the kernel's weights are not modelled), channel by channel
RECURSIVE SumOver(_, _, _)
SumOver(img, cells, ch) ==
  IF cells = {} THEN 0
  ELSE LET c == CHOOSE c \in cells : TRUE
       IN  img[c[1] + 1][c[2] + 1][ch] + SumOver(img, cells \ {c}, ch)

BlurPixel(img, ys, xs, y, x, ksize) ==
  LET r     == ksize \div 2
      cells == {c \in ys \X xs : /\ c[1] >= y - r /\ c[1] <= y + r
                                  /\ c[2] >= x - r /\ c[2] <= x + r}
  IN  [ch \in 1..Channels(img) |-> SumOver(img, cells, ch) \div Cardinality(cells)]

\* A variant that writes one more column than the region has
WriteRoiWide(img, ys, xs, ksize) ==
  [y \in 1..Height(img) |-> [x \in 1..Width(img) |->
     IF (y - 1) \in ys /\ ((x - 1) \in xs \/ (x - 2) \in xs)
       THEN BlurPixel(img, ys, xs \cup {x - 1}, y - 1, x - 1, ksize)
       ELSE img[y][x]]]

\* lines 318-319: out[y1:y2, x1:x2] = GaussianBlur(roi)
WriteRoi(img, ys, xs, ksize) ==
  [y \in 1..Height(img) |-> [x \in 1..Width(img) |->
     IF (y - 1) \in ys /\ (x - 1) \in xs
       THEN BlurPixel(img, ys, xs, y - 1, x - 1, ksize)
       ELSE img[y][x]]]

\* lines 313-319: the loop over the detections, on the image out
RECURSIVE BlurLoop(_, _, _)
BlurLoop(out, dets, ksize) ==
  IF Len(dets) = 0 THEN out
  ELSE LET b  == dets[1].bbox
           ys == SliceIdx(b[2], b[4], Height(out))
           xs == SliceIdx(b[1], b[3], Width(out))
       IN  IF ys = {} \/ xs = {}                    \* roi.size == 0
             THEN BlurLoop(out, Tail(dets), ksize)
             ELSE BlurLoop(WriteRoi(out, ys, xs, ksize), Tail(dets), ksize)

\* line 310: img_bgr.copy() allocates a buffer with the same contents
Copy(heap, ref) ==
  LET new == Cardinality(DOMAIN heap)
  IN  [heap |-> [r \in DOMAIN heap \cup {new} |->
                   IF r = new THEN heap[ref] ELSE heap[r]],
       ref  |-> new]

\* lines 311-312
OddKsize(ksize) == IF ksize % 2 = 0 THEN ksize + 1 ELSE ksize

\* _blur_regions(img_bgr, detections, ksize): the heap after the call and
\* the reference it returns
BlurRegions(heap, img_bgr, detections, ksize) ==
  LET c == Copy(heap, img_bgr)
  IN  [heap |-> [c.heap EXCEPT ![c.ref] =
                   BlurLoop(c.heap[c.ref], detections, OddKsize(ksize))],
       ref  |-> c.ref]

----------------------------------------------------------------------------
(* Inputs of _blur_regions *)

MaxDets == 2

\* 4 x 3 and 2 x 2 images (width x height), three channels
GradientImage(w, h) ==
  [y \in 1..h |-> [x \in 1..w |->
     <<10 * (w * (y - 1) + x), 7 * x, 100 - 5 * y>>]]

BlurImagePool == { GradientImage(4, 3), GradientImage(2, 2) }

\* <<lo, hi>>: inside, empty, reversed, negative, beyond the far edge
XSpans == { <<0, 2>>, <<1, 3>>, <<2, 2>>, <<3, 1>>, <<-2, -1>>, <<3, 9>> }
YSpans == { <<0, 2>>, <<1, 1>>, <<-1, 5>> }

DetPool ==
  { [bbox |-> <<xs[1], ys[1], xs[2], ys[2]>>, conf |-> 90] :
      xs \in XSpans, ys \in YSpans }

KsizePool == { 2, 3, 91 }

BlurIdle ==
  /\ bufs     = << >>
  /\ blur_in  = [img_bgr |-> 0, detections |-> << >>, ksize |-> 0,
                 before |-> << >>]
  /\ blur_loc = [ret |-> 0]
  /\ blur_pc  = "idle"

\* blurred = _blur_regions(img, detections, ksize)
CallBlurRegions ==
  /\ blur_pc = "call"
  /\ LET r == BlurRegions(bufs, blur_in.img_bgr, blur_in.detections,
                          blur_in.ksize)
     IN  /\ bufs' = r.heap
         /\ blur_loc' = [ret |-> r.ref]
  /\ blur_pc' = "returned"
  /\ UNCHANGED <<blur_in, nmsVars, ppVars, zipVars>>

----------------------------------------------------------------------------
(* Paths.  A string is a sequence of one-character strings.                *)

UpperChars == <<"A", "B", "C", "D", "E", "F", "G", "H", "I", "J", "K", "L", "M",
                "N", "O", "P", "Q", "R", "S", "T", "U", "V", "W", "X", "Y", "Z">>
LowerChars == <<"a", "b", "c", "d", "e", "f", "g", "h", "i", "j", "k", "l", "m",
                "n", "o", "p", "q", "r", "s", "t", "u", "v", "w", "x", "y", "z">>

\* str.lower()
Lower(str) ==
  [i \in 1..Len(str) |->
     IF \E k \in 1..Len(UpperChars) : UpperChars[k] = str[i]
       THEN LowerChars[CHOOSE k \in 1..Len(UpperChars) : UpperChars[k] = str[i]]
       ELSE str[i]]

\* str.rfind(ch), from 1; 0 when ch does not occur
RFind(str, ch) ==
  IF \E i \in 1..Len(str) : str[i] = ch
    THEN CHOOSE i \in 1..Len(str) :
           str[i] = ch /\ \A j \in (i + 1)..Len(str) : str[j] # ch
    ELSE 0

\* os.path.splitext (posixpath): <<root, ext>>; the extension starts at the
\* last dot of the last component, and leading dots of that component do
\* not start an extension
SplitExt(path) ==
  LET sepIndex == RFind(path, "/")
      dotIndex == RFind(path, ".")
  IN  IF /\ dotIndex > sepIndex
         /\ \E k \in (sepIndex + 1)..(dotIndex - 1) : path[k] # "."
        THEN <<SubSeq(path, 1, dotIndex - 1), SubSeq(path, dotIndex, Len(path))>>
        ELSE <<path, << >> >>

\* str.split("/")
RECURSIVE Split(_)
Split(str) ==
  IF \E i \in 1..Len(str) : str[i] = "/"
    THEN LET i == CHOOSE i \in 1..Len(str) :
                    str[i] = "/" /\ \A j \in 1..(i - 1) : str[j] # "/"
         IN  <<SubSeq(str, 1, i - 1)>> \o Split(SubSeq(str, i + 1, Len(str)))
    ELSE <<str>>

DotDot == <<".", ".">>
ExtJpg  == <<".", "j", "p", "g">>
ExtJpeg == <<".", "j", "p", "e", "g">>
ExtPng  == <<".", "p", "n", "g">>
ExtWebp == <<".", "w", "e", "b", "p">>
ExtBmp  == <<".", "b", "m", "p">>
ReportName == <<"b", "l", "u", "r", "_", "r", "e", "p", "o", "r", "t", ".",
                "t", "x", "t">>

\* _is_image_file  (main.py:57-59)
IsImageFile(name) ==
  SplitExt(Lower(name))[2] \in {ExtJpg, ExtJpeg, ExtPng, ExtWebp, ExtBmp}

----------------------------------------------------------------------------
(* Inputs of blur_zip: the upload and the entries of its archive *)

MaxEntries == 2

File(filename, readable, decodable, w, h) ==
  [filename |-> filename, readable |-> readable, decodable |-> decodable,
   w |-> w, h |-> h]

ValidJpg   == File(<<"a", ".", "j", "p", "g">>, TRUE, TRUE, 640, 480)
EvilJpg    == File(<<".", ".", "/", "e", "v", "i", "l", ".", "j", "p", "g">>,
                   TRUE, TRUE, 640, 480)
NotesTxt   == File(<<"n", "o", "t", "e", "s", ".", "t", "x", "t">>,
                   TRUE, FALSE, 0, 0)
CorruptJpg == File(<<"c", ".", "j", "p", "g">>, TRUE, FALSE, 0, 0)
ValidBmp   == File(<<"a", ".", "b", "m", "p">>, TRUE, TRUE, 320, 240)
Folder     == File(<<"d", "/">>, TRUE, FALSE, 0, 0)
EvilFolder == File(<<".", ".", "/", "d", "/">>, TRUE, FALSE, 0, 0)
BackEvil   == File(<<"d", "\\", ".", ".", "\\", "e", ".", "p", "n", "g">>,
                   TRUE, TRUE, 640, 480)
AbsPng     == File(<<"/", "a", "b", "s", ".", "p", "n", "g">>,
                   TRUE, TRUE, 640, 480)
ThinJpg    == File(<<"T", ".", "J", "P", "G">>, TRUE, TRUE, 1, 2000)
BadCrcPng  == File(<<"u", ".", "p", "n", "g">>, FALSE, FALSE, 0, 0)
DotsWebp   == File(<<"d", "/", "e", ".", ".", "w", "e", "b", "p">>,
                   TRUE, TRUE, 1280, 720)

EntryPool == { ValidJpg, EvilJpg, NotesTxt, CorruptJpg, ValidBmp, Folder,
               EvilFolder,
               BackEvil, AbsPng, ThinJpg, BadCrcPng, DotsWebp }

\* the archive of the specification's example
ExampleArchive == <<ValidJpg, EvilJpg, NotesTxt, CorruptJpg>>

Archives == SeqsUpTo(EntryPool, MaxEntries) \cup {ExampleArchive}

ZipIdle ==
  /\ session = FALSE
  /\ content_len = 0
  /\ is_zip = FALSE
  /\ archive = << >>
  /\ zip_pc = "idle"
  /\ idx = 0
  /\ processed_count = 0
  /\ skipped_count = 0
  /\ zout = << >>
  /\ report = [written |-> FALSE, processed |-> 0, skipped |-> 0]
  /\ response = [status |-> "none", raised |-> ""]
  /\ trace = << >>
  /\ read_log = {}
  /\ visited = {}

----------------------------------------------------------------------------
(* blur_zip  (main.py:62-158)                                              *)

\* ZipInfo.is_dir(): the entry's name ends with "/"
IsDir(filename) == Len(filename) > 0 /\ filename[Len(filename)] = "/"

\* line 97: info.filename.replace("\\", "/")
NormName(filename) ==
  [i \in 1..Len(filename) |-> IF filename[i] = "\\" THEN "/" ELSE filename[i]]

\* A variant that only rejects a leading ".." segment
UnsafePathLeading(name) ==
  (Len(name) > 0 /\ name[1] = "/") \/ Split(name)[1] = DotDot

\* line 98: name.startswith("/") or ".." in name.split("/")
UnsafePath(name) ==
  (Len(name) > 0 /\ name[1] = "/") \/ DotDot \in Range(Split(name))

\* lines 124-134: the format the image is encoded in
EncodeFormat(name) ==
  LET ext == SplitExt(Lower(name))[2]
  IN  IF ext \in {ExtJpg, ExtJpeg} THEN "jpg"
      ELSE IF ext = ExtPng THEN "png"
      ELSE IF ext = ExtWebp THEN "webp"
      ELSE "jpg"

\* lines 124-134: the name the entry is stored under: on the fallback path
\* the extension is replaced by ".jpg"
OutName(name) ==
  IF SplitExt(Lower(name))[2] \in {ExtJpg, ExtJpeg, ExtPng, ExtWebp}
    THEN name
    ELSE SplitExt(name)[1] \o ExtJpg

\* line 73
MAX_BYTES == 100 * 1024 * 1024

\* A variant with the limit tested the other way round
TooLargeBelow(n) == n < MAX_BYTES

\* line 75
TooLarge(n) == n > MAX_BYTES

\* len(content): a small upload, one at the limit, one a byte over it
ContentLens == { 1024, MAX_BYTES, MAX_BYTES + 1 }

Entry(i)   == archive[i]
NameOf(i)  == NormName(archive[i].filename)

\* the loop is at entry idx
AtEntry == zip_pc = "loop" /\ idx <= Len(archive)

\* A variant that never counts the entry
ContinueUncounted(skip) ==
  /\ idx' = idx + 1
  /\ visited' = visited \cup {idx}
  /\ trace' = Append(trace, "entry")
  /\ UNCHANGED <<session, content_len, is_zip, archive, zip_pc,
                 processed_count, skipped_count, zout, report, response,
                 nmsVars, ppVars, blurVars>>

\* `continue`, with or without counting the entry as skipped
Continue(skip) ==
  /\ idx' = idx + 1
  /\ skipped_count' = skipped_count + (IF skip THEN 1 ELSE 0)
  /\ visited' = visited \cup {idx}
  /\ trace' = Append(trace, "entry")
  /\ UNCHANGED <<session, content_len, is_zip, archive, zip_pc,
                 processed_count, zout, report, response,
                 nmsVars, ppVars, blurVars>>

\* an exception no handler catches leaves the `with` block and the handler;
\* `where` is the call that raised
Unhandled(where) ==
  /\ zip_pc' = "done"
  /\ response' = [status |-> "exception", raised |-> where]
  /\ visited' = visited \cup {idx}
  /\ trace' = Append(trace, "entry")
  /\ UNCHANGED <<session, content_len, is_zip, archive, idx,
                 processed_count, skipped_count, zout, report,
                 nmsVars, ppVars, blurVars>>

\* what session.run may return for an image: a well-formed output, an
\* output with a single candidate row, or an exception of the runtime
InferOutcomes ==
  { [kind |-> "ok", output |-> t] :
      t \in { CandsFirst(SixRows(<<320, 320, 200, 100, 90>>,
                                  <<330, 320, 200, 100, 80>>)),
              AttrsFirst(SixRows(<<11, 100, 1, 1, 90>>,
                                 <<630, 320, 100, 100, 70>>)),
              CandsFirst(<< <<320, 320, 200, 100, 90>> >>) } }
  \cup { [kind |-> "raise", output |-> Filled(<<1, 0, 5>>)] }

\* lines 69-70
CheckSession ==
  /\ zip_pc = "start"
  /\ trace' = Append(trace, "session")
  /\ IF ~session
       THEN zip_pc' = "done" /\ response' = [status |-> "500", raised |-> ""]
       ELSE zip_pc' = "read" /\ UNCHANGED response
  /\ UNCHANGED <<session, content_len, is_zip, archive, idx, processed_count,
                 skipped_count, zout, report, read_log, visited,
                 nmsVars, ppVars, blurVars>>

\* lines 73-76: content = await file.read(), then the size limit
CheckSize ==
  /\ zip_pc = "read"
  /\ trace' = Append(trace, "size")
  /\ IF TooLarge(content_len)
       THEN zip_pc' = "done" /\ response' = [status |-> "413", raised |-> ""]
       ELSE zip_pc' = "open" /\ UNCHANGED response
  /\ UNCHANGED <<session, content_len, is_zip, archive, idx, processed_count,
                 skipped_count, zout, report, read_log, visited,
                 nmsVars, ppVars, blurVars>>

\* lines 79-90: the container is opened and listed; then the output archive
\* and the counters are created
OpenZip ==
  /\ zip_pc = "open"
  /\ trace' = Append(trace, "container")
  /\ IF ~is_zip
       THEN /\ zip_pc' = "done" /\ response' = [status |-> "400", raised |-> ""]
            /\ UNCHANGED <<idx, processed_count, skipped_count, zout>>
       ELSE /\ zip_pc' = "loop" /\ UNCHANGED response
            /\ idx' = 1
            /\ processed_count' = 0
            /\ skipped_count' = 0
            /\ zout' = << >>
  /\ UNCHANGED <<session, content_len, is_zip, archive, report, read_log,
                 visited,
                 nmsVars, ppVars, blurVars>>

\* lines 93-94
EntryIsDir ==
  /\ AtEntry
  /\ IsDir(Entry(idx).filename)
  /\ Continue(FALSE)
  /\ UNCHANGED read_log

\* lines 97-100
EntryUnsafePath ==
  /\ AtEntry
  /\ ~IsDir(Entry(idx).filename)
  /\ UnsafePath(NameOf(idx))
  /\ Continue(TRUE)
  /\ UNCHANGED read_log

\* lines 102-104
EntryNotImage ==
  /\ AtEntry
  /\ ~IsDir(Entry(idx).filename)
  /\ ~UnsafePath(NameOf(idx))
  /\ ~IsImageFile(NameOf(idx))
  /\ Continue(TRUE)
  /\ UNCHANGED read_log

\* the entries that reach line 106: not a directory, a safe path, an image
\* extension (decided once for each entry of the pool)
AcceptedEntries ==
  {e \in EntryPool : /\ ~IsDir(e.filename)
                     /\ ~UnsafePath(NormName(e.filename))
                     /\ IsImageFile(NormName(e.filename))}

Accepted(i) == Entry(i) \in AcceptedEntries

\* line 106: zin.read(info) raises (bad CRC, encrypted or unsupported entry)
EntryReadRaises ==
  /\ AtEntry
  /\ Accepted(idx)
  /\ ~Entry(idx).readable
  /\ read_log' = read_log \cup {idx}
  /\ Unhandled("read")

\* lines 108-112: the bytes do not decode
EntryDecodeFails ==
  /\ AtEntry
  /\ Accepted(idx)
  /\ Entry(idx).readable
  /\ ~Entry(idx).decodable
  /\ read_log' = read_log \cup {idx}
  /\ Continue(TRUE)

\* the entry reaches line 114 with a decoded image
Decoded(i) ==
  /\ Accepted(i)
  /\ Entry(i).readable
  /\ Entry(i).decodable

\* line 115: _preprocess raises (cv2.resize to an empty size)
EntryPreprocessRaises ==
  /\ AtEntry
  /\ Decoded(idx)
  /\ ~Preprocess(Entry(idx).w, Entry(idx).h).ok
  /\ read_log' = read_log \cup {idx}
  /\ Unhandled("preprocess")

\* line 117: session.run raises
EntryInferenceRaises ==
  /\ AtEntry
  /\ Decoded(idx)
  /\ Preprocess(Entry(idx).w, Entry(idx).h).ok
  /\ \E o \in InferOutcomes : o.kind = "raise"
  /\ read_log' = read_log \cup {idx}
  /\ Unhandled("inference")

\* the outcomes of lines 115-118 that give detections, by image size
DetectionTable ==
  [d \in {<<e.w, e.h>> : e \in {e \in EntryPool : e.decodable}} |->
     UNION { Postprocess(o.output, d[1], d[2], Preprocess(d[1], d[2])) :
               o \in {o \in InferOutcomes : o.kind = "ok"} }]

Detections(i) == DetectionTable[<<Entry(i).w, Entry(i).h>>]

\* line 118: _postprocess raises
EntryPostprocessRaises ==
  /\ AtEntry
  /\ Decoded(idx)
  /\ Preprocess(Entry(idx).w, Entry(idx).h).ok
  /\ \E r \in Detections(idx) : r.kind = "raise"
  /\ read_log' = read_log \cup {idx}
  /\ Unhandled("postprocess")

\* lines 121-138: blurred and encoded, but imencode reports failure.  The
\* blurred image has the shape of img (_blur_regions); its pixels do not
\* enter the control flow.
EntryEncodeFails ==
  /\ AtEntry
  /\ Decoded(idx)
  /\ Preprocess(Entry(idx).w, Entry(idx).h).ok
  /\ \E r \in Detections(idx) : r.kind = "ok"
  /\ read_log' = read_log \cup {idx}
  /\ Continue(TRUE)

\* lines 121-142: blurred, encoded and written
EntryWritten ==
  /\ AtEntry
  /\ Decoded(idx)
  /\ Preprocess(Entry(idx).w, Entry(idx).h).ok
  /\ \E r \in Detections(idx) : r.kind = "ok"
  /\ read_log' = read_log \cup {idx}
  /\ zout' = Append(zout, [name   |-> OutName(NameOf(idx)),
                           format |-> EncodeFormat(NameOf(idx)),
                           src    |-> idx])
  /\ processed_count' = processed_count + 1
  /\ idx' = idx + 1
  /\ visited' = visited \cup {idx}
  /\ trace' = Append(trace, "entry")
  /\ UNCHANGED <<session, content_len, is_zip, archive, zip_pc,
                 skipped_count, report, response,
                 nmsVars, ppVars, blurVars>>

\* lines 145-151: after the loop the report is written
WriteReport ==
  /\ zip_pc = "loop"
  /\ idx > Len(archive)
  /\ report' = [written |-> TRUE, processed |-> processed_count,
                skipped |-> skipped_count]
  /\ zout' = Append(zout, [name |-> ReportName, format |-> "txt", src |-> 0])
  /\ zip_pc' = "return"
  /\ UNCHANGED <<session, content_len, is_zip, archive, idx, processed_count,
                 skipped_count, response, trace, read_log, visited,
                 nmsVars, ppVars, blurVars>>

\* lines 153-158
ReturnZip ==
  /\ zip_pc = "return"
  /\ response' = [status |-> "200", raised |-> ""]
  /\ zip_pc' = "done"
  /\ UNCHANGED <<session, content_len, is_zip, archive, idx, processed_count,
                 skipped_count, zout, report, trace, read_log, visited,
                 nmsVars, ppVars, blurVars>>

----------------------------------------------------------------------------
(* Specifications *)

InitNms ==
  /\ \E n \in 0..MaxBoxes :
       \E boxes \in [1..n -> BoxPool], scores \in [1..n -> ScorePool] :
         \E thr \in ThrPool :
           nms_in = [boxes |-> boxes, scores |-> scores, thr |-> thr]
  /\ nms_out = [done |-> FALSE, keep |-> << >>]
  /\ PostIdle /\ BlurIdle /\ ZipIdle

NextNms == CallNms

SpecNms == InitNms /\ [][NextNms]_vars

InitPost ==
  /\ \E t \in TensorPool, im \in ImagePool :
       pp_in = [output |-> t, orig_w |-> im[1], orig_h |-> im[2]]
  /\ pp_out = [done |-> FALSE, kind |-> "none", nrows |-> 0, ncols |-> 0,
               dets |-> << >>]
  /\ NmsIdle /\ BlurIdle /\ ZipIdle

NextPost == CallPostprocess

SpecPost == InitPost /\ [][NextPost]_vars

InitBlur ==
  /\ \E img \in BlurImagePool, dets \in SeqsUpTo(DetPool, MaxDets),
        k \in KsizePool :
       /\ bufs = [r \in {0} |-> img]
       /\ blur_in = [img_bgr |-> 0, detections |-> dets, ksize |-> k,
                     before |-> img]
  /\ blur_loc = [ret |-> 0]
  /\ blur_pc = "call"
  /\ NmsIdle /\ PostIdle /\ ZipIdle

NextBlur == CallBlurRegions

SpecBlur == InitBlur /\ [][NextBlur]_vars

InitZip ==
  /\ session \in BOOLEAN
  /\ content_len \in ContentLens
  /\ is_zip \in BOOLEAN
  /\ archive \in (IF is_zip THEN Archives ELSE {<< >>})
  /\ zip_pc = "start"
  /\ idx = 0
  /\ processed_count = 0
  /\ skipped_count = 0
  /\ zout = << >>
  /\ report = [written |-> FALSE, processed |-> 0, skipped |-> 0]
  /\ response = [status |-> "none", raised |-> ""]
  /\ trace = << >>
  /\ read_log = {}
  /\ visited = {}
  /\ NmsIdle /\ PostIdle /\ BlurIdle

ProcessEntry ==
  \/ EntryIsDir
  \/ EntryUnsafePath
  \/ EntryNotImage
  \/ EntryReadRaises
  \/ EntryDecodeFails
  \/ EntryPreprocessRaises
  \/ EntryInferenceRaises
  \/ EntryPostprocessRaises
  \/ EntryEncodeFails
  \/ EntryWritten

NextZip ==
  \/ CheckSession
  \/ CheckSize
  \/ OpenZip
  \/ ProcessEntry
  \/ WriteReport
  \/ ReturnZip

SpecZip == InitZip /\ [][NextZip]_vars

----------------------------------------------------------------------------
(* Properties of _nms  (SpecNms) *)

\* IoU of two boxes exceeds thr (hundredths), for boxes with positive union
Overlaps(a, b, thr) == Inter(a, b) * 100 > thr * (Area(a) + Area(b) - Inter(a, b))

Kept == Range(nms_out.keep)

AllPositive == \A i \in 1..Len(nms_in.boxes) : Area(nms_in.boxes[i]) > 0

\* C5: for boxes of positive area, _nms is greedy suppression: the kept
\* indices are distinct, the first kept one has the maximum score, no two
\* kept boxes have IoU above the threshold, and every box not kept has IoU
\* above the threshold with a kept box of at least its score; so an empty
\* input gives an empty output, a single box is kept, two boxes with IoU 0
\* are both kept, and of boxes that all overlap pairwise above the threshold
\* only the one with the top score is kept.
C5_GreedySuppression ==
  (nms_out.done /\ AllPositive) =>
    LET boxes  == nms_in.boxes
        scores == nms_in.scores
        thr    == nms_in.thr
        keep   == nms_out.keep
        n      == Len(boxes)
    IN  /\ Kept \subseteq 1..n
        /\ \A a, b \in 1..Len(keep) : a # b => keep[a] # keep[b]
        /\ n > 0 => /\ Len(keep) > 0
                    /\ \A j \in 1..n : scores[keep[1]] >= scores[j]
        /\ \A a, b \in Kept : a # b => ~Overlaps(boxes[a], boxes[b], thr)
        /\ \A j \in (1..n) \ Kept :
             \E k \in Kept : /\ Overlaps(boxes[k], boxes[j], thr)
                              /\ scores[k] >= scores[j]
        /\ n = 0 => keep = << >>
        /\ n = 1 => keep = <<1>>
        /\ (n = 2 /\ Inter(boxes[1], boxes[2]) = 0) => Kept = {1, 2}
        /\ (n > 0 /\ \A a, b \in 1..n : Overlaps(boxes[a], boxes[b], thr))
             => Len(keep) = 1

\* three boxes of positive area, one suppressed and two kept
C5_Witness ==
  /\ nms_out.done
  /\ AllPositive
  /\ Len(nms_in.boxes) = 3
  /\ Len(nms_out.keep) = 2
  /\ nms_in.thr = IOU_THRES

\* C8: the IoU of any two boxes of the input, zero-area ones included, is a
\* number in [0, 1] (never NaN: a zero union gives 0), so a box is only
\* discarded for overlapping a kept box
C8_IoUDefined ==
  nms_out.done =>
    LET boxes == nms_in.boxes
        n     == Len(boxes)
    IN  /\ \A i, j \in 1..n :
             i # j => LET v == IoU(boxes[i], boxes[j])
                      IN  v.kind = "num" /\ 0 <= v.num /\ v.num <= v.den
        /\ \A j \in (1..n) \ Kept :
             \E k \in Kept : Inter(boxes[k], boxes[j]) > 0

----------------------------------------------------------------------------
(* Properties of _postprocess  (SpecPost) *)

\* C6: every detection _postprocess returns has a score of at least
\* CONF_THRES and an emitted integer box with 0 <= x1 < x2 <= orig_w and
\* 0 <= y1 < y2 <= orig_h
C6_EmittedBoxes ==
  pp_out.done =>
    \A k \in 1..Len(pp_out.dets) :
      LET d == pp_out.dets[k]
      IN  /\ d.conf >= CONF_THRES
          /\ 0 <= d.bbox[1] /\ d.bbox[1] < d.bbox[3] /\ d.bbox[3] <= pp_in.orig_w
          /\ 0 <= d.bbox[2] /\ d.bbox[2] < d.bbox[4] /\ d.bbox[4] <= pp_in.orig_h

\* C9: _postprocess raises on no output shape: it returns a list, empty when
\* the shape is degenerate (fewer than 5 attributes per row), and the rows it
\* walks are the longer of the two axes
C9_NeverRaises ==
  pp_out.done =>
    /\ pp_out.kind = "ok"
    /\ pp_out.nrows >= pp_out.ncols
    /\ pp_out.ncols < 5 => pp_out.dets = << >>

----------------------------------------------------------------------------
(* Properties of _blur_regions  (SpecBlur) *)

\* pixel (y, x), from 0, of an h x w image lies in the rectangle
\* [y1:y2, x1:x2] of the detection
InBox(det, y, x, h, w) ==
  /\ SliceBound(det.bbox[2], h) <= y /\ y < SliceBound(det.bbox[4], h)
  /\ SliceBound(det.bbox[1], w) <= x /\ x < SliceBound(det.bbox[3], w)

\* C7: the image _blur_regions returns has the height, width and channels
\* of its input, every pixel outside all the rectangles [y1:y2, x1:x2] is the
\* input's pixel, detections of zero area change nothing, and the input's
\* buffer is left as it was, the result being another buffer
C7_BlurFrame ==
  blur_pc = "returned" =>
    LET before == blur_in.before
        after  == bufs[blur_loc.ret]
        dets   == blur_in.detections
        h      == Height(before)
        w      == Width(before)
    IN  /\ Height(after) = h
        /\ \A y \in 1..h :
             /\ Len(after[y]) = w
             /\ \A x \in 1..w : Len(after[y][x]) = Channels(before)
        /\ \A y \in 0..(h - 1), x \in 0..(w - 1) :
             (\A k \in 1..Len(dets) : ~InBox(dets[k], y, x, h, w))
               => after[y + 1][x + 1] = before[y + 1][x + 1]
        /\ blur_loc.ret # blur_in.img_bgr
        /\ bufs[blur_in.img_bgr] = before

\* two detections, one of zero area, and a pixel changed inside the other
C7_Witness ==
  /\ blur_pc = "returned"
  /\ Len(blur_in.detections) = 2
  /\ blur_in.detections[1].bbox[1] = blur_in.detections[1].bbox[3]
  /\ bufs[blur_loc.ret] # blur_in.before
  /\ blur_in.ksize = 2

----------------------------------------------------------------------------
(* Properties of blur_zip  (SpecZip) *)

Files == {i \in 1..Len(archive) : ~IsDir(archive[i].filename)}

\* the normalised path is absolute or has a ".." segment
Traversal(filename) ==
  LET name == NormName(filename)
  IN  \/ Len(name) > 0 /\ name[1] = "/"
      \/ \E k \in 1..Len(Split(name)) : Split(name)[k] = DotDot

Completed == zip_pc = "done" /\ response.status = "200"

PassedChecks == session /\ content_len <= 100 * 1024 * 1024 /\ is_zip

\* C1: when the run completes, processed_count + skipped_count is the number
\* of non-directory entries, the output archive holds exactly processed_count
\* image entries, one per processed input entry, and blur_report.txt is its
\* last entry and states the two counts; in the example archive the unsafe
\* path, the text file and the corrupt jpeg are among the skipped
C1_Accounting ==
  Completed =>
    /\ processed_count + skipped_count = Cardinality(Files)
    /\ Len(zout) = processed_count + 1
    /\ \A k \in 1..(Len(zout) - 1) :
         /\ zout[k].src \in Files
         /\ zout[k].format \in {"jpg", "png", "webp"}
         /\ \A l \in 1..(Len(zout) - 1) : k # l => zout[k].src # zout[l].src
    /\ zout[Len(zout)].name = ReportName
    /\ zout[Len(zout)].src = 0
    /\ report = [written |-> TRUE, processed |-> processed_count,
                 skipped |-> skipped_count]
    /\ archive = ExampleArchive => skipped_count >= 3

\* the example archive: one entry processed, three skipped
C1_Witness ==
  /\ Completed
  /\ archive = ExampleArchive
  /\ report = [written |-> TRUE, processed |-> 1, skipped |-> 3]
  /\ Len(zout) = 2

\* C2: once the three up-front checks have passed, the handler ends by
\* returning the output archive, every entry having been visited
C2_NoEntryFailsBatch ==
  (PassedChecks /\ zip_pc = "done") =>
    /\ response.status = "200"
    /\ visited = 1..Len(archive)

\* C3 as stated: every entry whose normalised path is absolute or has a ".."
\* segment is counted as skipped without its bytes being read, and no entry
\* of the output archive has such a path
C3_EveryTraversalCounted ==
  /\ [][(AtEntry /\ Traversal(archive[idx].filename))
          => /\ skipped_count' = skipped_count + 1
             /\ read_log' = read_log
             /\ zout' = zout]_vars
  /\ [](\A k \in 1..Len(zout) : ~Traversal(zout[k].name))

\* C3, amended: every non-directory entry whose normalised path is absolute
\* or has a ".." segment is counted as skipped without its bytes being read
\* (a directory entry is passed over uncounted), and no entry of the output
\* archive has such a path
C3_FileTraversalCounted ==
  /\ [][(AtEntry /\ ~IsDir(archive[idx].filename)
                 /\ Traversal(archive[idx].filename))
          => /\ skipped_count' = skipped_count + 1
             /\ read_log' = read_log
             /\ zout' = zout]_vars
  /\ [](\A k \in 1..Len(zout) : ~Traversal(zout[k].name))

\* a traversal entry was skipped unread, and a later entry was written
C3_Witness ==
  /\ Completed
  /\ Len(archive) = 2
  /\ Traversal(archive[1].filename)
  /\ ~IsDir(archive[1].filename)
  /\ skipped_count = 1
  /\ read_log = {2}
  /\ Len(zout) = 2

\* C4: with the model loaded, an input longer than 100 MB is answered 413
\* with the container never opened and no entry listed or read; the fatal
\* checks happen once each, in the order model, size, container, and before
\* any entry is processed
C4_SizeGuardFirst ==
  /\ (session /\ content_len > 100 * 1024 * 1024 /\ zip_pc = "done") =>
        /\ response.status = "413"
        /\ trace = <<"session", "size">>
        /\ visited = {} /\ read_log = {} /\ zout = << >>
  /\ \A k \in 1..Len(trace) :
        /\ trace[k] = "session"   <=> k = 1
        /\ trace[k] = "size"      <=> k = 2
        /\ trace[k] = "container" <=> k = 3
        /\ trace[k] = "entry"     <=> k > 3

\* an oversized upload of a valid archive with entries, rejected
C4_Witness ==
  /\ zip_pc = "done"
  /\ response.status = "413"
  /\ is_zip
  /\ Len(archive) = 2

\* C10: if the accepted entries have pairwise distinct normalised paths, the
\* entries of the output archive have pairwise distinct paths, and no image
\* entry is stored as blur_report.txt
C10_DistinctOutputPaths ==
  (\A i, j \in 1..Len(archive) :
      (i # j /\ Accepted(i) /\ Accepted(j)) => NameOf(i) # NameOf(j))
    => /\ \A k, l \in 1..Len(zout) : k # l => zout[k].name # zout[l].name
       /\ \A k \in 1..Len(zout) :
            zout[k].src # 0 => zout[k].name # ReportName

====
